---- MODULE Spec2Model ----
(***************************************************************************)
(* Model of BewlyCat's scroll-activity signal (useGlobalScrollState in     *)
(* useTopBarInteraction.ts) and of the frame sampler / diagnostics         *)
(* controller (PerformanceDiagnostics in performanceDiagnostics.ts).       *)
(*                                                                         *)
(* The browser is modelled by a clock (now), one table of pending          *)
(* setTimeout timers, one table of pending requestAnimationFrame requests, *)
(* the listener list of window 'scroll' and the handler list of the mitt   *)
(* emitter for OVERLAY_SCROLL_BAR_SCROLL.  Callbacks run one at a time     *)
(* (single UI thread); the order of independently scheduled callbacks is   *)
(* a choice of the scheduler.                                              *)
(***************************************************************************)
EXTENDS Integers, Sequences, FiniteSets, TLC

VARIABLES
    \* ---- browser ----
    now,                \* performance.now() / event-loop clock, in ms
    timers,             \* pending setTimeout timers: records [id, due, cb]
    rafs,               \* pending requestAnimationFrame requests: [id, cb]
    windowListeners,    \* number of 'scroll' listeners registered on window
    emitterHandlers,    \* number of handlers mitt holds for OVERLAY_SCROLL_BAR_SCROLL
    \* ---- useTopBarInteraction.ts, module-level singleton state ----
    isScrolling,        \* isScrolling.value
    scrollTimeout,      \* timer handle or Null
    listenerCount,
    isListenerAttached,
    scrollRAF,          \* rAF handle or Null
    mounted,            \* components that ran useGlobalScrollState's onMounted
    mountCount,         \* number of onMounted hooks run so far
    lastScrollAt,       \* time of the last scroll event delivered since attach, or -1
    bodyClass,          \* document.body carries the class 'bewly-scrolling'
    \* ---- performanceDiagnostics.ts, class PerformanceDiagnostics ----
    enabled,
    frameMetrics,
    frameCount,
    droppedFrames,
    rafId,
    perfIsScrolling,    \* this.isScrolling
    perfScrollTimeout,  \* this.scrollTimeout
    lastTime,           \* closure variables of startFrameMonitoring
    frameCountInSecond,
    secondStart,
    cardCount,
    columnCount,
    console,            \* messages the last diagnostics step wrote to the console
    reports,            \* number of scroll reports printed so far
    lastMeasure,        \* what the last call of measure() did and returned
    lastReport,         \* what the last call of generateReport() returned
    \* ---- useDPRPerformanceFix ----
    windowDPR,          \* window.devicePixelRatio, in thousandths
    currentDPR,         \* currentDPR.value, in thousandths
    styleElement,       \* styleElement.value: an element handle or Null
    headStyles,         \* <style id="bewly-dpr-perf-fix"> elements in document.head
    nextElement,        \* handle of the next element document.createElement returns
    dprState,           \* "unmounted", "mounted" or "torndown"
    dprListeners,       \* handleChange is registered for resize and resolution change
    queryDPR,           \* the resolution the media query was built for
    queryMatches        \* whether the media query matched when last evaluated

browserVars == <<now, timers, rafs, windowListeners, emitterHandlers>>
scrollVars  == <<isScrolling, scrollTimeout, listenerCount, isListenerAttached,
                 scrollRAF, mounted, mountCount, lastScrollAt, bodyClass>>
perfVars    == <<enabled, frameMetrics, frameCount, droppedFrames, rafId,
                 perfIsScrolling, perfScrollTimeout, lastTime,
                 frameCountInSecond, secondStart, cardCount, columnCount,
                 console, reports>>
dprVars     == <<windowDPR, currentDPR, styleElement, headStyles, nextElement,
                 dprState, dprListeners, queryDPR, queryMatches>>
otherVars   == <<lastMeasure, lastReport, dprVars>>
vars        == <<browserVars, scrollVars, perfVars, otherVars>>

Null == 0                       \* null handle; browser handles are positive

\* ---- bounds of the scroll-signal specification ----
NumConsumers == 2               \* components using useGlobalScrollState
MaxMounts == 3                  \* onMounted hooks run in one behaviour
ScrollMaxTime == 320            \* the clock stops advancing here (Spec)
ScrollTickSteps == {10, 150}    \* how far one Tick advances the clock (Spec)
MaxUnmatched == 1               \* how far below 0 unmatched removals may take the count (SpecEarly)

\* ---- bounds of the diagnostics specification ----
PerfMaxFrames == 3              \* frames processed in one behaviour (SpecPerf)
PerfMaxTime == 400              \* the clock stops advancing here (SpecPerf)
PerfTickSteps == {100, 200}     \* how far one Tick advances the clock (SpecPerf)
ScrollTops == {0, 120}          \* scroll offsets getScrollTop() may read
GridSizes == {4}                \* card / column counts passed to updateGridInfo
FrameSkew == 1                  \* how far a frame timestamp may lie before the clock read (SpecPerf)

\* ---- bounds of the DPR and measure specifications ----
DPRs == {1000, 1010, 1250, 1500}    \* device pixel ratios, in thousandths
MaxElements == 8                \* style elements created in one behaviour (SpecDpr)
ReportMaxFrames == 2            \* frames processed in one behaviour (SpecReport)
ReportMaxTime == 500            \* the clock stops advancing here (SpecReport)
MaxReports == 2                 \* calls of generateReport in one behaviour (SpecReport)
FnValues == {1, 2}              \* values the measured function returns
FnDurations == {5, 6, 16, 17}   \* how long the measured function runs, in ms
MeasureMaxTime == 60            \* the clock stops advancing here (SpecMeasure)

\* ---- bounds of the long-run diagnostics specification ----
QuietUntil == 100               \* frames processed before the page gets busy again (SpecLong)
LongMaxFrames == 102            \* frames processed in one behaviour (SpecLong)
LongMaxTime == 1760             \* the clock stops advancing here (SpecLong)
FramePeriod == 16               \* a regular frame follows the previous one by 16 ms
Stall == 1000                   \* a stall of the page before the first frame
Hitches == {50, 60}             \* shorter delays of the first frame (SpecLong)

\* ---- program constants ----
IdleDelay == 150                \* setTimeout(..., 150) in handleScrollEvent
ScrollEndDelay == 200           \* setTimeout(..., 200) in onScrollEnd
MaxFrameMetrics == 100          \* frameMetrics keeps the last 100 frames
FpsWindow == 1000               \* FPS is computed once per 1000 ms
DroppedFps == 30                \* a second below 30 FPS counts as dropped
LongFrame == 50                 \* a frame above 50 ms is a long frame
MeasureWarn == 16               \* measure warns above 16 ms
MeasureInfo == 5                \* measure logs above 5 ms
LowDPRLimit == 1250             \* isLowDPR: dpr <= 1.25
DPROne == 1000                  \* isDPR1: |dpr - 1.0| ...
DPR1Tolerance == 10             \*          ... < 0.01

Consumers == 1..NumConsumers
WatcherConsumers == {1}         \* the consumers that use useScrollingOptimization

Max(a, b) == IF a > b THEN a ELSE b

(***************************************************************************)
(* Browser primitives                                                       *)
(***************************************************************************)

\* A handle that differs from every handle still known to the page.
FreshId(used) == CHOOSE i \in 1..(Cardinality(used) + 1) : i \notin used

TimerIds(ts) == {t.id : t \in ts}
RafIds(rs) == {r.id : r \in rs}

\* clearTimeout(id) / cancelAnimationFrame(id): unknown handles are ignored.
ClearTimeout(ts, id) == {t \in ts : t.id # id}
CancelAnimationFrame(rs, id) == {r \in rs : r.id # id}

ScrollTimers == {t \in timers : t.cb = "scrollIdle"}
ScrollRafs == {r \in rafs : r.cb = "setScrolling"}

(***************************************************************************)
(* useTopBarInteraction.ts: handleScrollEvent                               *)
(* st is the part of the state the handler reads and writes:               *)
(* [scrollRAF, scrollTimeout, timers, rafs, perfScrollTimeout, rafId, now] *)
(***************************************************************************)
HeldRafIds(st) == RafIds(st.rafs) \cup {st.scrollRAF, st.rafId}

\* handleScrollEvent without the early return (every event schedules a frame).
handleScrollEvent_noThrottle(st) ==
    LET rid == FreshId(HeldRafIds(st))
        cleared == IF st.scrollTimeout # Null
                     THEN ClearTimeout(st.timers, st.scrollTimeout)
                     ELSE st.timers
        tid == FreshId(TimerIds(cleared) \cup {st.scrollTimeout, st.perfScrollTimeout})
    IN [st EXCEPT !.scrollRAF = rid,
                  !.rafs = st.rafs \cup {[id |-> rid, cb |-> "setScrolling"]},
                  !.scrollTimeout = tid,
                  !.timers = cleared \cup
                      {[id |-> tid, due |-> st.now + IdleDelay, cb |-> "scrollIdle"]}]

handleScrollEvent(st) ==
    IF st.scrollRAF # Null
      THEN st                                   \* if (scrollRAF !== null) return
      ELSE
        LET rid == FreshId(HeldRafIds(st))
            cleared == IF st.scrollTimeout # Null
                         THEN ClearTimeout(st.timers, st.scrollTimeout)
                         ELSE st.timers
            tid == FreshId(TimerIds(cleared) \cup {st.scrollTimeout, st.perfScrollTimeout})
        IN [st EXCEPT !.scrollRAF = rid,
                      !.rafs = st.rafs \cup {[id |-> rid, cb |-> "setScrolling"]},
                      !.scrollTimeout = tid,
                      !.timers = cleared \cup
                          {[id |-> tid, due |-> st.now + IdleDelay, cb |-> "scrollIdle"]}]

\* An event source calls every registered copy of the handler in turn.
RECURSIVE Dispatch(_, _)
Dispatch(n, st) == IF n = 0 THEN st ELSE Dispatch(n - 1, handleScrollEvent(st))

HandlerState ==
    [scrollRAF |-> scrollRAF, scrollTimeout |-> scrollTimeout, timers |-> timers,
     rafs |-> rafs, perfScrollTimeout |-> perfScrollTimeout, rafId |-> rafId,
     now |-> now]

\* A scroll event reaches n registered handlers.
ScrollEvent(n) ==
    LET st == Dispatch(n, HandlerState)
    IN /\ scrollRAF' = st.scrollRAF
       /\ scrollTimeout' = st.scrollTimeout
       /\ timers' = st.timers
       /\ rafs' = st.rafs
       /\ lastScrollAt' = IF n > 0 THEN now ELSE lastScrollAt
       /\ UNCHANGED <<now, windowListeners, emitterHandlers, isScrolling,
                      listenerCount, isListenerAttached, mounted, mountCount,
                      bodyClass>>
       /\ UNCHANGED <<perfVars, otherVars>>

\* The page scrolls natively: window dispatches 'scroll'.
NativeScroll == ScrollEvent(windowListeners)

\* OverlayScrollbars scrolls: emitter.emit(OVERLAY_SCROLL_BAR_SCROLL).
OverlayScroll == ScrollEvent(emitterHandlers)

\* useScrollingOptimization: watch(isScrolling, ...) of every mounted component
\* that uses it.  A change of isScrolling.value runs each watcher once before
\* the next task; classList.add / remove of a class is idempotent.
Watchers == mounted \cap WatcherConsumers

MarkerAfterWatch(scrolling) ==
    IF scrolling # isScrolling /\ Watchers # {} THEN scrolling ELSE bodyClass

\* The animation-frame callback scheduled by handleScrollEvent runs.
RunScrollRAF(r) ==
    /\ r \in ScrollRafs
    /\ rafs' = rafs \ {r}
    /\ isScrolling' = TRUE
    /\ bodyClass' = MarkerAfterWatch(TRUE)
    /\ scrollRAF' = Null
    /\ UNCHANGED <<now, timers, windowListeners, emitterHandlers, scrollTimeout,
                   listenerCount, isListenerAttached, mounted, mountCount,
                   lastScrollAt>>
    /\ UNCHANGED <<perfVars, otherVars>>

\* The idle timer of handleScrollEvent expires and its callback runs.
FireScrollTimer(t) ==
    /\ t \in ScrollTimers
    /\ now >= t.due
    /\ timers' = timers \ {t}
    /\ isScrolling' = FALSE
    /\ bodyClass' = MarkerAfterWatch(FALSE)
    /\ UNCHANGED <<now, rafs, windowListeners, emitterHandlers, scrollTimeout,
                   listenerCount, isListenerAttached, scrollRAF, mounted,
                   mountCount, lastScrollAt>>
    /\ UNCHANGED <<perfVars, otherVars>>

(***************************************************************************)
(* addScrollListener / removeScrollListener, and the component hooks of     *)
(* useGlobalScrollState that call them                                      *)
(***************************************************************************)
addScrollListener ==
    /\ listenerCount' = listenerCount + 1
    /\ IF ~isListenerAttached
         THEN \* addEventListener ignores a listener that is already registered;
              \* mitt's on() appends the handler to its list
              /\ windowListeners' = Max(windowListeners, 1)
              /\ emitterHandlers' = emitterHandlers + 1
              /\ isListenerAttached' = TRUE
         ELSE UNCHANGED <<windowListeners, emitterHandlers, isListenerAttached>>
    /\ UNCHANGED <<isScrolling, scrollTimeout, scrollRAF, timers, rafs>>

\* removeScrollListener that detaches on every call, whatever the count.
removeScrollListener_alwaysDetach ==
    /\ listenerCount' = listenerCount - 1
    /\ windowListeners' = 0
    /\ emitterHandlers' = Max(emitterHandlers - 1, 0)
    /\ isListenerAttached' = FALSE
    /\ timers' = ClearTimeout(timers, scrollTimeout)
    /\ scrollTimeout' = Null
    /\ rafs' = CancelAnimationFrame(rafs, scrollRAF)
    /\ scrollRAF' = Null
    /\ UNCHANGED isScrolling

\* removeScrollListener that detaches but leaves timer and frame request alone.
removeScrollListener_noCancel ==
    /\ IF listenerCount - 1 <= 0 /\ isListenerAttached
         THEN /\ windowListeners' = 0
              /\ emitterHandlers' = Max(emitterHandlers - 1, 0)
              /\ isListenerAttached' = FALSE
              /\ listenerCount' = 0
         ELSE /\ listenerCount' = listenerCount - 1
              /\ UNCHANGED <<windowListeners, emitterHandlers, isListenerAttached>>
    /\ UNCHANGED <<timers, scrollTimeout, rafs, scrollRAF, isScrolling>>

removeScrollListener ==
    /\ IF listenerCount - 1 <= 0 /\ isListenerAttached
         THEN \* removeEventListener drops the listener; mitt's off() drops
              \* one occurrence of the handler
              /\ windowListeners' = 0
              /\ emitterHandlers' = Max(emitterHandlers - 1, 0)
              /\ isListenerAttached' = FALSE
              /\ listenerCount' = 0
              /\ timers' = IF scrollTimeout # Null
                             THEN ClearTimeout(timers, scrollTimeout) ELSE timers
              /\ scrollTimeout' = Null
              /\ rafs' = IF scrollRAF # Null
                           THEN CancelAnimationFrame(rafs, scrollRAF) ELSE rafs
              /\ scrollRAF' = Null
         ELSE /\ listenerCount' = listenerCount - 1
              /\ UNCHANGED <<windowListeners, emitterHandlers, isListenerAttached,
                             timers, scrollTimeout, rafs, scrollRAF>>
    /\ UNCHANGED isScrolling

\* onMounted of a component that uses useGlobalScrollState.
Mount(c) ==
    /\ c \notin mounted
    /\ mountCount < MaxMounts
    /\ addScrollListener
    /\ mounted' = mounted \cup {c}
    /\ mountCount' = mountCount + 1
    /\ UNCHANGED <<now, lastScrollAt, bodyClass>>
    /\ UNCHANGED <<perfVars, otherVars>>

\* onBeforeUnmount of a component that uses useGlobalScrollState.
Unmount(c) ==
    /\ c \in mounted
    /\ removeScrollListener
    /\ mounted' = mounted \ {c}
    /\ lastScrollAt' = IF isListenerAttached' THEN lastScrollAt ELSE -1
    /\ UNCHANGED <<now, mountCount, bodyClass>>
    /\ UNCHANGED <<perfVars, otherVars>>

\* onBeforeUnmount of a component whose onMounted hook has not run: Vue runs
\* the beforeUnmount hooks of a component that is unmounted before its
\* mounted hooks were flushed (a pending Suspense branch, a failed mount).
UnmountBeforeMounted(c) ==
    /\ c \notin mounted
    /\ removeScrollListener
    /\ lastScrollAt' = IF isListenerAttached' THEN lastScrollAt ELSE -1
    /\ UNCHANGED <<now, mounted, mountCount, bodyClass>>
    /\ UNCHANGED <<perfVars, otherVars>>

\* Time passes.
Tick(d) ==
    /\ now' = now + d
    /\ UNCHANGED <<timers, rafs, windowListeners, emitterHandlers>>
    /\ UNCHANGED <<scrollVars, perfVars, otherVars>>

(***************************************************************************)
(* performanceDiagnostics.ts: class PerformanceDiagnostics                  *)
(***************************************************************************)
PerfTimers == {t \in timers : t.cb = "scrollEnd"}
PerfRafs == {r \in rafs : r.cb = "measureFrame"}

\* startFrameMonitoring: fresh closure variables and the first frame request.
startFrameMonitoring ==
    LET rid == FreshId(RafIds(rafs) \cup {scrollRAF, rafId})
    IN /\ lastTime' = now
       /\ frameCountInSecond' = 0
       /\ secondStart' = now
       /\ rafId' = rid
       /\ rafs' = rafs \cup {[id |-> rid, cb |-> "measureFrame"]}

\* enable without the "already enabled" check.
enable_noGuard ==
    /\ enabled' = TRUE
    /\ startFrameMonitoring
    /\ console' = {"systemInfo", "enabled"}
    /\ UNCHANGED <<now, timers, windowListeners, emitterHandlers>>
    /\ UNCHANGED <<frameMetrics, frameCount, droppedFrames, perfIsScrolling,
                   perfScrollTimeout, cardCount, columnCount, reports>>
    /\ UNCHANGED <<scrollVars, otherVars>>

enable ==
    /\ IF enabled
         THEN /\ console' = {}
              /\ UNCHANGED <<enabled, lastTime, frameCountInSecond, secondStart,
                             rafId, rafs>>
         ELSE /\ enabled' = TRUE
              /\ startFrameMonitoring
              /\ console' = {"systemInfo", "enabled"}
    /\ UNCHANGED <<now, timers, windowListeners, emitterHandlers>>
    /\ UNCHANGED <<frameMetrics, frameCount, droppedFrames, perfIsScrolling,
                   perfScrollTimeout, cardCount, columnCount, reports>>
    /\ UNCHANGED <<scrollVars, otherVars>>

disable ==
    /\ IF ~enabled
         THEN /\ console' = {}
              /\ UNCHANGED <<enabled, rafId, rafs>>
         ELSE /\ enabled' = FALSE
              /\ rafs' = IF rafId # Null THEN CancelAnimationFrame(rafs, rafId) ELSE rafs
              /\ rafId' = Null
              /\ console' = {"disabled"}
    /\ UNCHANGED <<now, timers, windowListeners, emitterHandlers>>
    /\ UNCHANGED <<frameMetrics, frameCount, droppedFrames, perfIsScrolling,
                   perfScrollTimeout, lastTime, frameCountInSecond, secondStart,
                   cardCount, columnCount, reports>>
    /\ UNCHANGED <<scrollVars, otherVars>>

\* The sample measureFrame records; fps = 1000 / frameTime is kept as the
\* exact fraction num / den.
FrameSample(currentTime, frameTime, top) ==
    [timestamp |-> currentTime, frameTime |-> frameTime, scrollTop |-> top,
     fps |-> [num |-> 1000, den |-> frameTime]]

\* ShouldSample that ignores the scroll-active flag.
ShouldSample_ignoreScrolling(scrolling, frameTime) == frameTime > 0

\* ShouldSample that also records a frame of zero length.
ShouldSample_zeroAllowed(scrolling, frameTime) == scrolling /\ frameTime >= 0

\* if (this.isScrolling && frameTime > 0)
ShouldSample(scrolling, frameTime) == scrolling /\ frameTime > 0

\* PushSample that drops the newest frame instead of the oldest.
PushSample_dropNewest(buf, sample) ==
    LET pushed == Append(buf, sample)
    IN IF Len(pushed) > MaxFrameMetrics
         THEN SubSeq(pushed, 1, MaxFrameMetrics) ELSE pushed

\* push, then shift once more than 100 frames are kept
PushSample(buf, sample) ==
    LET pushed == Append(buf, sample)
    IN IF Len(pushed) > MaxFrameMetrics THEN Tail(pushed) ELSE pushed

\* IsDroppedSecond that does not look at the scroll-active flag.
IsDroppedSecond_anyTime(scrolling, fps) == fps < DroppedFps

\* if (this.isScrolling) { ... if (fps < 30) ... }
IsDroppedSecond(scrolling, fps) == scrolling /\ fps < DroppedFps

\* IsLongFrame with the boundary included.
IsLongFrame_inclusive(frameTime) == frameTime >= LongFrame

\* if (frameTime > 50)
IsLongFrame(frameTime) == frameTime > LongFrame

\* The animation-frame callback measureFrame(currentTime) runs; top is what
\* getScrollTop() reads from the page.
measureFrame(r, top, currentTime) ==
    /\ r \in PerfRafs
    /\ IF ~enabled
         THEN /\ rafs' = rafs \ {r}
              /\ console' = {}
              /\ UNCHANGED <<lastTime, frameCountInSecond, secondStart, droppedFrames,
                             frameMetrics, frameCount, rafId>>
         ELSE
           LET frameTime == currentTime - lastTime
               counted == frameCountInSecond + 1
               windowClosed == currentTime - secondStart >= FpsWindow
               fps == counted
               dropped == windowClosed /\ IsDroppedSecond(perfIsScrolling, fps)
               sampled == ShouldSample(perfIsScrolling, frameTime)
               rid == FreshId(RafIds(rafs \ {r}) \cup {scrollRAF, rafId})
           IN /\ lastTime' = currentTime
              /\ frameCountInSecond' = IF windowClosed THEN 0 ELSE counted
              /\ secondStart' = IF windowClosed THEN currentTime ELSE secondStart
              /\ droppedFrames' = IF dropped THEN droppedFrames + 1 ELSE droppedFrames
              /\ frameMetrics' =
                    IF sampled
                      THEN PushSample(frameMetrics,
                                      FrameSample(currentTime, frameTime, top))
                      ELSE frameMetrics
              /\ console' =
                    (IF windowClosed /\ perfIsScrolling THEN {"fps"} ELSE {})
                    \cup (IF dropped THEN {"droppedWarning"} ELSE {})
                    \cup (IF sampled /\ IsLongFrame(frameTime)
                            THEN {"longFrameWarning"} ELSE {})
              /\ frameCount' = frameCount + 1
              /\ rafId' = rid
              /\ rafs' = (rafs \ {r}) \cup {[id |-> rid, cb |-> "measureFrame"]}
    /\ UNCHANGED <<now, timers, windowListeners, emitterHandlers>>
    /\ UNCHANGED <<enabled, perfIsScrolling, perfScrollTimeout, cardCount,
                   columnCount, reports>>
    /\ UNCHANGED <<scrollVars, otherVars>>

\* A frame whose timestamp is the current clock value.
PerfFrame(r, top) == measureFrame(r, top, now)

\* The first frame after startFrameMonitoring, when the frame timestamp the
\* browser passes (the start of the frame) lies before the performance.now()
\* that startFrameMonitoring read.
EarlyStampedFrame(r, top) ==
    /\ now >= FrameSkew
    /\ lastTime = now /\ secondStart = now /\ frameCountInSecond = 0
    /\ measureFrame(r, top, now - FrameSkew)

\* onScrollStart without the "enabled" check.
onScrollStart_noGuard ==
    /\ perfIsScrolling' = TRUE
    /\ console' = {"scrollStart"}
    /\ timers' = IF perfScrollTimeout # Null
                   THEN ClearTimeout(timers, perfScrollTimeout) ELSE timers
    /\ UNCHANGED <<now, rafs, windowListeners, emitterHandlers>>
    /\ UNCHANGED <<enabled, frameMetrics, frameCount, droppedFrames, rafId,
                   perfScrollTimeout, lastTime, frameCountInSecond, secondStart,
                   cardCount, columnCount, reports>>
    /\ UNCHANGED <<scrollVars, otherVars>>

\* onScrollStart that leaves the pending end-of-scroll timer alone.
onScrollStart_noClear ==
    /\ IF ~enabled
         THEN /\ console' = {}
              /\ UNCHANGED perfIsScrolling
         ELSE /\ perfIsScrolling' = TRUE
              /\ console' = {"scrollStart"}
    /\ UNCHANGED <<now, timers, rafs, windowListeners, emitterHandlers>>
    /\ UNCHANGED <<enabled, frameMetrics, frameCount, droppedFrames, rafId,
                   perfScrollTimeout, lastTime, frameCountInSecond, secondStart,
                   cardCount, columnCount, reports>>
    /\ UNCHANGED <<scrollVars, otherVars>>

onScrollStart ==
    /\ IF ~enabled
         THEN /\ console' = {}
              /\ UNCHANGED <<perfIsScrolling, timers>>
         ELSE /\ perfIsScrolling' = TRUE
              /\ console' = {"scrollStart"}
              /\ timers' = IF perfScrollTimeout # Null
                             THEN ClearTimeout(timers, perfScrollTimeout) ELSE timers
    /\ UNCHANGED <<now, rafs, windowListeners, emitterHandlers>>
    /\ UNCHANGED <<enabled, frameMetrics, frameCount, droppedFrames, rafId,
                   perfScrollTimeout, lastTime, frameCountInSecond, secondStart,
                   cardCount, columnCount, reports>>
    /\ UNCHANGED <<scrollVars, otherVars>>

\* onScrollEnd that starts a new timer without clearing the previous one.
onScrollEnd_noClear ==
    /\ IF ~enabled
         THEN /\ console' = {}
              /\ UNCHANGED <<perfScrollTimeout, timers>>
         ELSE LET tid == FreshId(TimerIds(timers) \cup {scrollTimeout, perfScrollTimeout})
              IN /\ perfScrollTimeout' = tid
                 /\ timers' = timers \cup
                       {[id |-> tid, due |-> now + ScrollEndDelay, cb |-> "scrollEnd"]}
                 /\ console' = {}
    /\ UNCHANGED <<now, rafs, windowListeners, emitterHandlers>>
    /\ UNCHANGED <<enabled, frameMetrics, frameCount, droppedFrames, rafId,
                   perfIsScrolling, lastTime, frameCountInSecond, secondStart,
                   cardCount, columnCount, reports>>
    /\ UNCHANGED <<scrollVars, otherVars>>

onScrollEnd ==
    /\ IF ~enabled
         THEN /\ console' = {}
              /\ UNCHANGED <<perfScrollTimeout, timers>>
         ELSE LET cleared == IF perfScrollTimeout # Null
                               THEN ClearTimeout(timers, perfScrollTimeout)
                               ELSE timers
                  tid == FreshId(TimerIds(cleared) \cup {scrollTimeout, perfScrollTimeout})
              IN /\ perfScrollTimeout' = tid
                 /\ timers' = cleared \cup
                       {[id |-> tid, due |-> now + ScrollEndDelay, cb |-> "scrollEnd"]}
                 /\ console' = {}
    /\ UNCHANGED <<now, rafs, windowListeners, emitterHandlers>>
    /\ UNCHANGED <<enabled, frameMetrics, frameCount, droppedFrames, rafId,
                   perfIsScrolling, lastTime, frameCountInSecond, secondStart,
                   cardCount, columnCount, reports>>
    /\ UNCHANGED <<scrollVars, otherVars>>

\* printScrollReport without the empty-buffer check.
printScrollReport_noEmptyCheck ==
    /\ console' = {"scrollEnd", "report"}
    /\ reports' = reports + 1
    /\ frameMetrics' = <<>>

\* printScrollReport: nothing when no frame was sampled, else the report and
\* an empty buffer.
printScrollReport ==
    IF Len(frameMetrics) = 0
      THEN /\ console' = {"scrollEnd"}
           /\ UNCHANGED <<frameMetrics, reports>>
      ELSE /\ console' = {"scrollEnd", "report"}
           /\ reports' = reports + 1
           /\ frameMetrics' = <<>>

\* The 200 ms timer of onScrollEnd expires and its callback runs.
FireScrollEndTimer(t) ==
    /\ t \in PerfTimers
    /\ now >= t.due
    /\ timers' = timers \ {t}
    /\ perfIsScrolling' = FALSE
    /\ printScrollReport
    /\ UNCHANGED <<now, rafs, windowListeners, emitterHandlers>>
    /\ UNCHANGED <<enabled, frameCount, droppedFrames, rafId, perfScrollTimeout,
                   lastTime, frameCountInSecond, secondStart, cardCount, columnCount>>
    /\ UNCHANGED <<scrollVars, otherVars>>

updateGridInfo(cards, columns) ==
    /\ cardCount' = cards
    /\ columnCount' = columns
    /\ console' = IF enabled THEN {"gridInfo"} ELSE {}
    /\ UNCHANGED browserVars
    /\ UNCHANGED <<enabled, frameMetrics, frameCount, droppedFrames, rafId,
                   perfIsScrolling, perfScrollTimeout, lastTime,
                   frameCountInSecond, secondStart, reports>>
    /\ UNCHANGED <<scrollVars, otherVars>>

(***************************************************************************)
(* performanceDiagnostics.ts: generateReport()                              *)
(* Numbers that need not be whole (fps = 1000 / frameTime, averages) are    *)
(* exact fractions [num, den] in lowest terms with den > 0.                 *)
(***************************************************************************)
RECURSIVE Gcd(_, _)
Gcd(a, b) == IF b = 0 THEN a ELSE Gcd(b, a % b)

Frac(n, d) == LET g == Gcd(n, d) IN [num |-> n \div g, den |-> d \div g]

Zero == [num |-> 0, den |-> 1]

FracAdd(a, b) == Frac(a.num * b.den + b.num * a.den, a.den * b.den)

FracLess(a, b) == a.num * b.den < b.num * a.den

\* list.reduce((a, b) => a + b, 0)
RECURSIVE SumOf(_)
SumOf(list) == IF list = <<>> THEN Zero ELSE FracAdd(Head(list), SumOf(Tail(list)))

\* list.length > 0 ? sum / list.length : 0
MeanOf(list) ==
    IF Len(list) > 0
      THEN LET sum == SumOf(list) IN Frac(sum.num, sum.den * Len(list))
      ELSE Zero

\* list.length > 0 ? Math.min(...list) : 0
MinOf(list) ==
    IF Len(list) > 0
      THEN CHOOSE x \in {list[i] : i \in 1..Len(list)} :
              \A j \in 1..Len(list) : ~FracLess(list[j], x)
      ELSE Zero

\* list.length > 0 ? Math.max(...list) : 0
MaxOf(list) ==
    IF Len(list) > 0
      THEN CHOOSE x \in {list[i] : i \in 1..Len(list)} :
              \A j \in 1..Len(list) : ~FracLess(x, list[j])
      ELSE Zero

\* this.frameMetrics.map(m => m.frameTime) and .map(m => m.fps)
FrameTimes(buf) == [i \in 1..Len(buf) |-> Frac(buf[i].frameTime, 1)]
FpsList(buf) == [i \in 1..Len(buf) |-> Frac(buf[i].fps.num, buf[i].fps.den)]

\* The object generateReport returns for the given fields (the screen and
\* user-agent entries are read from the browser and left out).
ReportOf(buf, dropped, total, cards, columns, dpr) ==
    [devicePixelRatio |-> dpr,
     avgFps |-> MeanOf(FpsList(buf)),
     minFps |-> MinOf(FpsList(buf)),
     maxFps |-> MaxOf(FpsList(buf)),
     droppedFrames |-> dropped,
     totalFrames |-> total,
     avgFrameTime |-> MeanOf(FrameTimes(buf)),
     maxFrameTime |-> MaxOf(FrameTimes(buf)),
     cardCount |-> cards,
     columnCount |-> columns]

EmptyReport == ReportOf(<<>>, 0, 0, 0, 0, 0)

\* generateReport that empties the buffer it has read.
generateReport_clearing ==
    /\ lastReport' = [calls |-> lastReport.calls + 1,
                      report |-> ReportOf(frameMetrics, droppedFrames, frameCount,
                                          cardCount, columnCount, windowDPR)]
    /\ frameMetrics' = <<>>
    /\ UNCHANGED <<enabled, frameCount, droppedFrames, rafId, perfIsScrolling,
                   perfScrollTimeout, lastTime, frameCountInSecond, secondStart,
                   cardCount, columnCount, console, reports>>
    /\ UNCHANGED <<browserVars, scrollVars, lastMeasure, dprVars>>

generateReport ==
    /\ lastReport' = [calls |-> lastReport.calls + 1,
                      report |-> ReportOf(frameMetrics, droppedFrames, frameCount,
                                          cardCount, columnCount, windowDPR)]
    /\ UNCHANGED <<browserVars, scrollVars, perfVars, lastMeasure, dprVars>>

(***************************************************************************)
(* performanceDiagnostics.ts: measure(name, fn)                             *)
(* fn runs for d ms and returns value; the clock read before fn is `start`. *)
(***************************************************************************)
MeasureLog(duration) ==
    IF duration > MeasureWarn THEN {"measureWarning"}
    ELSE IF duration > MeasureInfo THEN {"measureLog"}
    ELSE {}

\* measure without the enabled check (always timed).
measureOutcome_alwaysTimed(en, start, value, d) ==
    LET end == start + d
        duration == end - start
    IN [fnValue |-> value, result |-> value, fnCalls |-> 1, clockReads |-> 2,
        wasEnabled |-> en, duration |-> duration, logged |-> MeasureLog(duration)]

measureOutcome(en, start, value, d) ==
    IF ~en
      THEN [fnValue |-> value, result |-> value, fnCalls |-> 1, clockReads |-> 0,
            wasEnabled |-> en, duration |-> 0, logged |-> {}]
      ELSE LET end == start + d
               duration == end - start
           IN [fnValue |-> value, result |-> value, fnCalls |-> 1,
               clockReads |-> 2, wasEnabled |-> en, duration |-> duration,
               logged |-> MeasureLog(duration)]

measure(value, d) ==
    /\ lastMeasure' = measureOutcome(enabled, now, value, d)
    /\ console' = lastMeasure'.logged
    /\ now' = now + d
    /\ UNCHANGED <<timers, rafs, windowListeners, emitterHandlers>>
    /\ UNCHANGED <<enabled, frameMetrics, frameCount, droppedFrames, rafId,
                   perfIsScrolling, perfScrollTimeout, lastTime,
                   frameCountInSecond, secondStart, cardCount, columnCount,
                   reports>>
    /\ UNCHANGED <<scrollVars, dprVars, lastReport>>

(***************************************************************************)
(* useDPRPerformanceFix (one controller instance).                          *)
(* d is the part of the state injectOptimizationCSS reads and writes:       *)
(* [currentDPR, styleElement, headStyles, nextElement].  An element of      *)
(* headStyles is [el, text]: the element handle and which rule set its      *)
(* textContent holds.                                                       *)
(***************************************************************************)
Abs(x) == IF x < 0 THEN -x ELSE x

isLowDPR(dpr) == dpr <= LowDPRLimit

\* isDPR1 with the tolerance included.
isDPR1_inclusive(dpr) == Abs(dpr - DPROne) <= DPR1Tolerance

isDPR1(dpr) == Abs(dpr - DPROne) < DPR1Tolerance

StyleText(dpr) ==
    IF isDPR1(dpr) THEN "aggressive"
    ELSE IF isLowDPR(dpr) THEN "light"
    ELSE ""

DprState == [currentDPR |-> currentDPR, styleElement |-> styleElement,
             headStyles |-> headStyles, nextElement |-> nextElement]

\* element.remove(): detaches the element; no effect if it is not attached.
RemoveElement(styles, el) == {e \in styles : e.el # el}

\* injectOptimizationCSS that appends without removing the previous element.
injectOptimizationCSS_noRemove(d) ==
    LET style == [el |-> d.nextElement, text |-> StyleText(d.currentDPR)]
    IN IF style.text # ""
         THEN [d EXCEPT !.headStyles = d.headStyles \cup {style},
                        !.styleElement = style.el,
                        !.nextElement = d.nextElement + 1]
         ELSE [d EXCEPT !.nextElement = d.nextElement + 1]

injectOptimizationCSS(d) ==
    LET removed == IF d.styleElement # Null
                     THEN RemoveElement(d.headStyles, d.styleElement)
                     ELSE d.headStyles
        style == [el |-> d.nextElement, text |-> StyleText(d.currentDPR)]
    IN IF style.text # ""
         THEN [d EXCEPT !.headStyles = removed \cup {style},
                        !.styleElement = style.el,
                        !.nextElement = d.nextElement + 1]
         ELSE [d EXCEPT !.headStyles = removed,
                        !.nextElement = d.nextElement + 1]

\* The body of watchEffect.
DprEffect(d) == IF d.currentDPR # 0 THEN injectOptimizationCSS(d) ELSE d

\* The effect tracks currentDPR and styleElement; while it is active, a run
\* is queued when a handler has changed one of them, and it runs before the
\* next task.  Its own write to styleElement does not queue it again.
FlushEffect(before, after, active) ==
    IF active /\ (after.currentDPR # before.currentDPR
                  \/ after.styleElement # before.styleElement)
      THEN DprEffect(after)
      ELSE after

\* handleChange = updateDPR(); injectOptimizationCSS()
handleChange(d, active) ==
    LET updated == [d EXCEPT !.currentDPR = windowDPR]
    IN FlushEffect(d, injectOptimizationCSS(updated), active)

SetDprState(d) ==
    /\ currentDPR' = d.currentDPR
    /\ styleElement' = d.styleElement
    /\ headStyles' = d.headStyles
    /\ nextElement' = d.nextElement

\* The component is created and mounted: setup (refs, first run of the
\* effect), then onMounted, then the queued effect run.
DprMount ==
    /\ dprState = "unmounted"
    /\ LET setup == [DprState EXCEPT !.currentDPR = windowDPR,
                                     !.styleElement = Null]
           first == DprEffect(setup)
           initial == injectOptimizationCSS(first)
       IN SetDprState(FlushEffect(first, initial, TRUE))
    /\ queryDPR' = windowDPR
    /\ queryMatches' = TRUE
    /\ dprListeners' = TRUE
    /\ dprState' = "mounted"
    /\ UNCHANGED <<windowDPR, lastMeasure, lastReport>>
    /\ UNCHANGED <<browserVars, scrollVars, perfVars>>

\* The component is unmounted: the effect is stopped, then onUnmounted runs
\* cleanup().  The resize and change listeners stay registered.
DprUnmount ==
    /\ dprState = "mounted"
    /\ headStyles' = IF styleElement # Null
                       THEN RemoveElement(headStyles, styleElement)
                       ELSE headStyles
    /\ styleElement' = Null
    /\ bodyClass' = FALSE
    /\ dprState' = "torndown"
    /\ UNCHANGED <<windowDPR, currentDPR, nextElement, dprListeners, queryDPR,
                   queryMatches, lastMeasure, lastReport>>
    /\ UNCHANGED <<isScrolling, scrollTimeout, listenerCount, isListenerAttached,
                   scrollRAF, mounted, mountCount, lastScrollAt>>
    /\ UNCHANGED <<browserVars, perfVars>>

\* The user zooms the page: window.devicePixelRatio changes.
Zoom(dpr) ==
    /\ dpr # windowDPR
    /\ windowDPR' = dpr
    /\ UNCHANGED <<currentDPR, styleElement, headStyles, nextElement, dprState,
                   dprListeners, queryDPR, queryMatches, lastMeasure,
                   lastReport>>
    /\ UNCHANGED <<browserVars, scrollVars, perfVars>>

\* window dispatches 'resize' to handleChange.
Resize ==
    /\ dprListeners
    /\ SetDprState(handleChange(DprState, dprState = "mounted"))
    /\ UNCHANGED <<windowDPR, dprState, dprListeners, queryDPR, queryMatches,
                   lastMeasure, lastReport>>
    /\ UNCHANGED <<browserVars, scrollVars, perfVars>>

\* The media query (resolution: <queryDPR>dppx) starts or stops matching and
\* dispatches 'change' to handleChange.
ResolutionChange ==
    /\ dprListeners
    /\ queryMatches # (windowDPR = queryDPR)
    /\ queryMatches' = (windowDPR = queryDPR)
    /\ SetDprState(handleChange(DprState, dprState = "mounted"))
    /\ UNCHANGED <<windowDPR, dprState, dprListeners, queryDPR, lastMeasure,
                   lastReport>>
    /\ UNCHANGED <<browserVars, scrollVars, perfVars>>

(***************************************************************************)
(* Initial state: the modules have been loaded, nothing is mounted.         *)
(***************************************************************************)
Init ==
    /\ now = 0
    /\ timers = {}
    /\ rafs = {}
    /\ windowListeners = 0
    /\ emitterHandlers = 0
    /\ isScrolling = FALSE
    /\ scrollTimeout = Null
    /\ listenerCount = 0
    /\ isListenerAttached = FALSE
    /\ scrollRAF = Null
    /\ mounted = {}
    /\ mountCount = 0
    /\ lastScrollAt = -1
    /\ bodyClass = FALSE
    /\ enabled = FALSE
    /\ frameMetrics = <<>>
    /\ frameCount = 0
    /\ droppedFrames = 0
    /\ rafId = Null
    /\ perfIsScrolling = FALSE
    /\ perfScrollTimeout = Null
    /\ lastTime = 0
    /\ frameCountInSecond = 0
    /\ secondStart = 0
    /\ cardCount = 0
    /\ columnCount = 0
    /\ console = {}
    /\ reports = 0
    /\ lastMeasure = [fnValue |-> 0, result |-> 0, fnCalls |-> 0, clockReads |-> 0,
                      wasEnabled |-> FALSE, duration |-> 0, logged |-> {}]
    /\ lastReport = [calls |-> 0, report |-> EmptyReport]
    /\ windowDPR = 1000
    /\ currentDPR = 0
    /\ styleElement = Null
    /\ headStyles = {}
    /\ nextElement = 1
    /\ dprState = "unmounted"
    /\ dprListeners = FALSE
    /\ queryDPR = 0
    /\ queryMatches = FALSE

\* The scroll-activity signal and its consumers.
Next ==
    \/ \E c \in Consumers : Mount(c)
    \/ \E c \in Consumers : Unmount(c)
    \/ NativeScroll
    \/ OverlayScroll
    \/ \E r \in rafs : RunScrollRAF(r)
    \/ \E t \in timers : FireScrollTimer(t)
    \/ \E d \in ScrollTickSteps : now + d <= ScrollMaxTime /\ Tick(d)

Spec == Init /\ [][Next]_vars

\* The scroll-activity signal when components may also be unmounted before
\* their mounted hook has run.
NextEarly ==
    \/ Next
    \/ \E c \in Consumers :
          listenerCount > -MaxUnmatched /\ UnmountBeforeMounted(c)

SpecEarly == Init /\ [][NextEarly]_vars

\* The diagnostics controller, every interleaving over a short time span.
NextPerf ==
    \/ enable
    \/ disable
    \/ onScrollStart
    \/ onScrollEnd
    \/ \E g \in GridSizes : updateGridInfo(g, g)
    \/ \E r \in rafs, top \in ScrollTops :
          frameCount < PerfMaxFrames /\ PerfFrame(r, top)
    \/ \E r \in rafs, top \in ScrollTops :
          frameCount < PerfMaxFrames /\ EarlyStampedFrame(r, top)
    \/ \E t \in timers : FireScrollEndTimer(t)
    \/ \E d \in PerfTickSteps : now + d <= PerfMaxTime /\ Tick(d)

SpecPerf == Init /\ [][NextPerf]_vars

\* The page wraps synchronous work in measure() while diagnostics is switched
\* on and off.
NextMeasure ==
    \/ enable
    \/ disable
    \/ \E v \in FnValues, d \in FnDurations :
          now + d <= MeasureMaxTime /\ measure(v, d)

SpecMeasure == Init /\ [][NextMeasure]_vars

\* One or two scroll gestures under enabled diagnostics, with reports
\* requested at any point.
NextReport ==
    \/ enable
    \/ onScrollStart
    \/ onScrollEnd
    \/ \E g \in GridSizes : updateGridInfo(g, g)
    \/ \E r \in rafs :
          frameCount < ReportMaxFrames /\ now > lastTime /\ PerfFrame(r, 0)
    \/ \E t \in timers : FireScrollEndTimer(t)
    \/ \E d \in PerfTickSteps : now + d <= ReportMaxTime /\ Tick(d)
    \/ lastReport.calls < MaxReports /\ generateReport

SpecReport == Init /\ [][NextReport]_vars

\* One DPR controller over its life, while the user zooms and resizes.
NextDpr ==
    \/ DprMount
    \/ DprUnmount
    \/ \E dpr \in DPRs : Zoom(dpr)
    \/ nextElement <= MaxElements /\ Resize
    \/ nextElement <= MaxElements /\ ResolutionChange

SpecDpr == Init /\ [][NextDpr]_vars

\* The diagnostics controller over a long run of frames: the page calls the
\* controller only at load time (now = 0) and after QuietUntil frames; the
\* first frame may be late by a hitch or a stall, after that frames arrive
\* every FramePeriod ms.
Busy == now = 0 \/ frameCount >= QuietUntil

NextLong ==
    \/ Busy /\ enable
    \/ Busy /\ disable
    \/ Busy /\ onScrollStart
    \/ Busy /\ onScrollEnd
    \/ \E r \in rafs :
          /\ frameCount < LongMaxFrames
          /\ now > lastTime
          /\ PerfFrame(r, 0)
    \/ \E t \in timers : FireScrollEndTimer(t)
    \/ /\ rafId # Null
       /\ now = lastTime
       /\ now + FramePeriod <= LongMaxTime
       /\ Tick(FramePeriod)
    \/ \E d \in Hitches \cup {Stall} :
          /\ now = 0
          /\ Tick(d)

SpecLong == Init /\ [][NextLong]_vars



(***************************************************************************)
(* Properties of the scroll-activity signal (checked under Spec)            *)
(***************************************************************************)

\* C1: with every consumer unsubscribing only after it subscribed, the native
\* scroll listener and the scrollbar-library handler are attached if and only
\* if the reference count is greater than 0, and each source holds at most one.
C1_AttachedIffCounted ==
    /\ (windowListeners > 0) <=> (listenerCount > 0)
    /\ (emitterHandlers > 0) <=> (listenerCount > 0)
    /\ isListenerAttached <=> (listenerCount > 0)
    /\ windowListeners <= 1
    /\ emitterHandlers <= 1
    /\ listenerCount = Cardinality(mounted)

\* Two consumers are subscribed, one of them for the second time.
C1_Witness ==
    /\ Cardinality(mounted) = 2
    /\ mountCount = 3
    /\ windowListeners = 1
    /\ emitterHandlers = 1

\* C2: once every subscriber has unsubscribed there is no attached listener,
\* no pending idle timer and no pending frame request; while at least one
\* subscriber is left (N-1 unsubscribes) both listeners are attached.
C2_BalancedTeardown ==
    /\ mounted = {} =>
          /\ windowListeners = 0
          /\ emitterHandlers = 0
          /\ ScrollTimers = {}
          /\ ScrollRafs = {}
    /\ mounted # {} =>
          /\ windowListeners >= 1
          /\ emitterHandlers >= 1

\* Two subscribes and two unsubscribes have happened around a scroll gesture.
C2_Witness ==
    /\ mounted = {}
    /\ mountCount >= 2
    /\ isScrolling

\* C3 (as claimed): with a subscriber still subscribed and no callback of the
\* last scroll event left to run, the shared boolean is false.
C3_IdleMeansFalse ==
    (/\ isListenerAttached
     /\ lastScrollAt >= 0
     /\ ScrollTimers = {}
     /\ ScrollRafs = {}) => ~isScrolling

\* C4 (as claimed): every delivered scroll event restarts the idle timer, so
\* a pending idle timer is never due earlier than 150ms after the most recent
\* scroll event.
C4_TimerRestartedByEveryEvent ==
    \A t \in ScrollTimers : t.due >= lastScrollAt + IdleDelay

\* C5: at most one set-true frame request is pending, scroll events that
\* arrive while it is pending add none, and a request is scheduled only when
\* none is pending.
C5_OneFrameRequest ==
    /\ [](/\ Cardinality(ScrollRafs) <= 1
          /\ scrollRAF # Null <=> ScrollRafs # {}
          /\ \A r \in ScrollRafs : r.id = scrollRAF)
    /\ [][~(ScrollRafs' \subseteq ScrollRafs) =>
             /\ ScrollRafs = {}
             /\ Cardinality(ScrollRafs') = 1]_vars

\* A scroll event arrived while the frame request of an earlier one was pending.
C5_Witness ==
    /\ scrollRAF # Null
    /\ Cardinality(ScrollRafs) = 1
    /\ lastScrollAt > 0
    /\ \E t \in ScrollTimers : t.due < lastScrollAt + IdleDelay

(***************************************************************************)
(* Properties of the frame sampler and the diagnostics controller           *)
(***************************************************************************)

\* A step in which measureFrame ran to its end.
FrameStep == frameCount' = frameCount + 1

\* A step in which the end-of-scroll timer callback ran.
ScrollEndStep ==
    /\ PerfTimers' # PerfTimers
    /\ PerfTimers' = {}
    /\ ~perfIsScrolling'

\* C6 (SpecLong): the buffer never holds more than 100 samples; a sample
\* appended to a full buffer evicts the oldest one, so the buffer is the most
\* recent samples in arrival order.
C6_BoundedFifo ==
    /\ [](/\ Len(frameMetrics) <= MaxFrameMetrics
          /\ \A i \in 1..(Len(frameMetrics) - 1) :
                frameMetrics[i].timestamp < frameMetrics[i + 1].timestamp)
    /\ [][(frameMetrics' # frameMetrics /\ frameMetrics' # <<>>) =>
            LET new == frameMetrics'[Len(frameMetrics')]
            IN /\ new.timestamp = now
               /\ frameMetrics' =
                     IF Len(frameMetrics) < MaxFrameMetrics
                       THEN Append(frameMetrics, new)
                       ELSE Append(SubSeq(frameMetrics, 2, Len(frameMetrics)), new)]_vars
    /\ [][(FrameStep /\ perfIsScrolling /\ now > lastTime) =>
             /\ frameMetrics' # <<>>
             /\ frameMetrics'[Len(frameMetrics')].timestamp = now]_vars

\* The buffer is full, the samples of the first frames have been evicted and
\* the newest sample is the one of the current frame.
C6_Witness ==
    /\ Len(frameMetrics) = MaxFrameMetrics
    /\ frameCount > MaxFrameMetrics
    /\ frameMetrics[1].timestamp > FramePeriod
    /\ frameMetrics[MaxFrameMetrics].timestamp = now

\* C7 (SpecPerf): a frame processed while the scroll-active flag is false
\* appends no sample whatever its frameTime, and the buffer grows only in
\* frames processed while the flag is true.
C7_NoSampleWhenIdle ==
    /\ [][(FrameStep /\ ~perfIsScrolling) => frameMetrics' = frameMetrics]_vars
    /\ [][Len(frameMetrics') > Len(frameMetrics) =>
             (FrameStep /\ perfIsScrolling)]_vars

\* Frames with a positive frameTime were processed while no scroll gesture
\* had ever been started, and nothing was sampled.
C7_Witness ==
    /\ enabled
    /\ frameCount >= 2
    /\ lastTime > secondStart
    /\ ~perfIsScrolling
    /\ perfScrollTimeout = Null
    /\ frameMetrics = <<>>

\* C8 (SpecLong): the dropped-frame counter grows by exactly 1, with a
\* warning, in a frame that closes a one-second window with FPS below 30
\* while a scroll gesture is active, and is unchanged in every other step.
C8_RuleA ==
    [][LET closes == FrameStep /\ now - secondStart >= FpsWindow
           fpsInWindow == frameCountInSecond + 1
           fires == closes /\ perfIsScrolling /\ fpsInWindow < 30
       IN /\ droppedFrames' = IF fires THEN droppedFrames + 1 ELSE droppedFrames
          /\ FrameStep => (("droppedWarning" \in console') <=> fires)]_vars

\* A window with FPS below 30 closed during a scroll gesture.
C8_Witness ==
    /\ droppedFrames = 1
    /\ "droppedWarning" \in console
    /\ perfIsScrolling
    /\ secondStart = now
    /\ frameCountInSecond = 0

\* C9 (SpecLong): a frame processed during a scroll gesture writes a
\* long-frame warning if and only if its frameTime is above 50 ms, whether or
\* not rule A fired in the same frame; no other step writes one.
C9_RuleB ==
    [][/\ FrameStep =>
            (("longFrameWarning" \in console') <=>
                (perfIsScrolling /\ now - lastTime > 50))
       /\ (~FrameStep /\ "longFrameWarning" \in console') => console' = console]_vars

\* A 60 ms frame during a scroll gesture was warned about although no
\* one-second window closed.
C9_Witness ==
    /\ "longFrameWarning" \in console
    /\ "droppedWarning" \notin console
    /\ frameMetrics # <<>>
    /\ frameMetrics[Len(frameMetrics)].frameTime = 60
    /\ droppedFrames = 0

\* C10 (SpecPerf): at most one end-of-scroll timer is pending, an onScrollEnd
\* leaves exactly the timer it started (due 200 ms later), and only the
\* firing of that timer prints a report, exactly one, clearing the flag and
\* emptying the buffer.
C10_OneReportPerGesture ==
    /\ [](/\ Cardinality(PerfTimers) <= 1
          /\ \A t \in PerfTimers : t.id = perfScrollTimeout)
    /\ [][~(PerfTimers' \subseteq PerfTimers) =>
             /\ enabled
             /\ Cardinality(PerfTimers') = 1
             /\ \A t \in PerfTimers' : t.due = now + 200]_vars
    /\ [][(ScrollEndStep /\ frameMetrics # <<>>) =>
             /\ reports' = reports + 1
             /\ frameMetrics' = <<>>
             /\ "report" \in console']_vars
    /\ [][reports' # reports =>
             /\ ScrollEndStep
             /\ frameMetrics # <<>>
             /\ reports' = reports + 1]_vars

\* onScrollEnd was called twice and one timer fired: one report was printed,
\* the flag is cleared and the buffer is empty.
C10_Witness ==
    /\ enabled
    /\ reports = 1
    /\ perfScrollTimeout = 2
    /\ PerfTimers = {}
    /\ ~perfIsScrolling
    /\ frameMetrics = <<>>
    /\ now < 2 * ScrollEndDelay

\* C11 (SpecPerf): exactly one frame request is pending while diagnostics is
\* enabled and none while it is disabled; a step that neither toggles enabled
\* nor runs a frame (a repeated enable() or disable() included) leaves the
\* frame-callback chain and its closure variables alone.
C11_OneFrameChain ==
    /\ [](IF enabled
            THEN /\ Cardinality(PerfRafs) = 1
                 /\ \A r \in PerfRafs : r.id = rafId
            ELSE /\ PerfRafs = {}
                 /\ rafId = Null)
    /\ [][(enabled' = enabled /\ ~FrameStep) =>
             UNCHANGED <<rafId, rafs, lastTime, frameCountInSecond, secondStart>>]_vars

\* Diagnostics was enabled again after frames had been processed.
C11_Witness ==
    /\ enabled
    /\ console = {"systemInfo", "enabled"}
    /\ frameCount >= 1
    /\ now > 0
    /\ lastTime = now
    /\ Cardinality(PerfRafs) = 1

\* C12 (SpecPerf): while diagnostics stays disabled no sample is appended,
\* the lifetime frame counter does not advance, the active flag is not set,
\* no end-of-scroll timer is started and a pending one is removed only by
\* its own expiry.
C12_DisabledIsInert ==
    [][(~enabled /\ ~enabled') =>
          /\ frameCount' = frameCount
          /\ Len(frameMetrics') <= Len(frameMetrics)
          /\ perfIsScrolling' => perfIsScrolling
          /\ perfScrollTimeout' = perfScrollTimeout
          /\ PerfTimers' \subseteq PerfTimers
          /\ PerfTimers' # PerfTimers =>
                \E t \in PerfTimers : now >= t.due /\ ~perfIsScrolling']_vars

\* Disabled during a gesture with the end-of-scroll timer pending; the last
\* call made to the controller did nothing.
C12_Witness ==
    /\ ~enabled
    /\ console = {}
    /\ frameCount >= 1
    /\ perfIsScrolling
    /\ PerfTimers # {}
    /\ frameMetrics # <<>>

\* C13 (as claimed): every enable() that switches diagnostics on lands in
\* enabled-idle, that is with the scroll-active flag false.
C13_EnableLandsIdle ==
    [][(~enabled /\ enabled') => ~perfIsScrolling']_vars

\* C19 (SpecPerf): an onScrollStart() made after onScrollEnd() and before
\* its timer fired cancels that timer, keeps the flag true, prints nothing
\* and keeps the buffer; a report is printed only by the expiry of the timer
\* started by the latest onScrollEnd().
C19_StartCancelsEnd ==
    /\ [](console = {"scrollStart"} => (PerfTimers = {} /\ perfIsScrolling))
    /\ [][console' = {"scrollStart"} =>
             (frameMetrics' = frameMetrics /\ reports' = reports)]_vars
    /\ [][reports' # reports =>
             \E t \in PerfTimers :
                /\ t.id = perfScrollTimeout
                /\ now >= t.due
                /\ t \notin PerfTimers']_vars

\* onScrollStart() came before the timer of an earlier onScrollEnd() could
\* fire: the timer is gone, the samples are still there, nothing was printed.
C19_Witness ==
    /\ console = {"scrollStart"}
    /\ perfScrollTimeout # Null
    /\ PerfTimers = {}
    /\ perfIsScrolling
    /\ frameMetrics # <<>>
    /\ reports = 0
    /\ now < ScrollEndDelay

\* C20 (SpecPerf): when the end-of-scroll timer fires with an empty buffer,
\* no report is printed and nothing but the active flag (and the fired
\* timer) changes.
C20_EmptyBufferNoReport ==
    [][(ScrollEndStep /\ frameMetrics = <<>>) =>
          /\ reports' = reports
          /\ "report" \notin console'
          /\ UNCHANGED <<frameMetrics, frameCount, droppedFrames, cardCount,
                         columnCount, enabled, rafId, perfScrollTimeout, rafs,
                         lastTime, frameCountInSecond, secondStart>>]_vars

\* The timer fired after a gesture in which no frame was sampled.
C20_Witness ==
    /\ console = {"scrollEnd"}
    /\ reports = 0
    /\ ~perfIsScrolling
    /\ frameMetrics = <<>>
    /\ PerfTimers = {}
    /\ perfScrollTimeout # Null
    /\ cardCount = 4

\* C18: the body class 'bewly-scrolling' changes only together with a
\* transition of isScrolling and takes the new value of isScrolling, so the
\* class is never present while isScrolling is false, also after the component
\* that installed the watcher has been unmounted.
C18_MarkerFollowsSignal ==
    /\ [](bodyClass => isScrolling)
    /\ [][bodyClass' # bodyClass =>
            (isScrolling' # isScrolling /\ bodyClass' = isScrolling')]_vars

\* C14: measure(name, fn) calls fn exactly once and returns exactly fn's
\* value, enabled or disabled; disabled it reads the clock zero times and logs
\* nothing, enabled it reads the clock exactly twice.
C14_MeasureTransparent ==
    /\ [](lastMeasure.fnCalls # 0 =>
            /\ lastMeasure.fnCalls = 1
            /\ lastMeasure.result = lastMeasure.fnValue
            /\ lastMeasure.clockReads = IF lastMeasure.wasEnabled THEN 2 ELSE 0
            /\ (~lastMeasure.wasEnabled => lastMeasure.logged = {}))
    /\ [][lastMeasure' # lastMeasure =>
            (lastMeasure'.wasEnabled = enabled /\ console' = lastMeasure'.logged)]_vars

C14_Witness ==
    /\ lastMeasure.fnCalls = 1
    /\ ~lastMeasure.wasEnabled
    /\ lastMeasure.result = 2
    /\ lastMeasure.clockReads = 0
    /\ console = {}
    /\ now >= 17

\* C15: within one controller at most one stylesheet element with the fixed
\* id is in the document after any sequence of injections; an injection that
\* leaves the DPR unchanged and low (<= 1.25) leaves exactly one element, a
\* new one, the old one having been removed.
C15_OneStylesheet ==
    /\ [](Cardinality(headStyles) <= 1)
    /\ [][(nextElement' # nextElement /\ currentDPR' = currentDPR
           /\ currentDPR <= 1250) =>
            /\ Cardinality(headStyles') = 1
            /\ \A e \in headStyles' : e.el = styleElement' /\ e.el >= nextElement
            /\ headStyles' \cap headStyles = {}]_vars

C15_Witness ==
    /\ dprState = "mounted"
    /\ currentDPR = 1250
    /\ windowDPR = 1250
    /\ queryDPR = 1250
    /\ nextElement >= 6
    /\ Cardinality(headStyles) = 1
    /\ styleElement = nextElement - 1

\* C16: after every re-classification the stylesheet present is determined by
\* the current DPR alone: the aggressive rule set if |dpr - 1.0| < 0.01, else
\* the lighter rule set if dpr <= 1.25, else none; going from a low DPR to one
\* above 1.25 leaves no stylesheet.
C16_VariantFollowsDPR ==
    /\ [](dprState = "mounted" =>
            {e.text : e \in headStyles} =
                IF currentDPR - 1000 < 10 /\ 1000 - currentDPR < 10
                  THEN {"aggressive"}
                  ELSE IF currentDPR <= 1250 THEN {"light"} ELSE {})
    /\ [][nextElement' # nextElement =>
            /\ currentDPR' = windowDPR
            /\ {e.text : e \in headStyles'} =
                 IF currentDPR' - 1000 < 10 /\ 1000 - currentDPR' < 10
                   THEN {"aggressive"}
                   ELSE IF currentDPR' <= 1250 THEN {"light"} ELSE {}]_vars

C16_Witness ==
    /\ dprState = "mounted"
    /\ queryDPR = 1010
    /\ currentDPR = 1500
    /\ styleElement # Null
    /\ headStyles = {}

\* C17: unmounting the controller removes the stylesheet and clears the
\* scrolling marker, and no stylesheet with the fixed id is in the document in
\* any state after the unmount, also after later resize or resolution-change
\* events.
C17_NoStylesheetAfterUnmount ==
    /\ [][(dprState = "mounted" /\ dprState' = "torndown") =>
            (headStyles' = {} /\ ~bodyClass')]_vars
    /\ [](dprState = "torndown" => headStyles = {})

\* C23: while diagnostics is disabled no report is printed and the sample
\* buffer and the scroll-active flag are not modified; a timer of onScrollEnd
\* that was pending at disable() does not later print a report or clear the
\* buffer.
C23_DisabledKeepsBuffer ==
    [][(~enabled /\ ~enabled') =>
          /\ reports' = reports
          /\ frameMetrics' = frameMetrics
          /\ perfIsScrolling' = perfIsScrolling]_vars

\* C24: once the signal is torn down (listenerCount 0, nothing attached),
\* isScrolling is false, or a pending idle timer will make it false without a
\* new scroll event.
C24_TeardownLeavesIdle ==
    (listenerCount = 0 /\ ~isListenerAttached) =>
        (~isScrolling \/ ScrollTimers # {})

\* C25: listenerCount is never negative, also when removeScrollListener runs
\* with no matching addScrollListener before it, so the next single subscribe
\* gives listenerCount = 1 with the listeners attached.
C25_CountNeverNegative ==
    /\ [](listenerCount >= 0)
    /\ [][(mounted = {} /\ mounted' # {}) =>
            (listenerCount' = 1 /\ isListenerAttached')]_vars

\* C21: a frame whose frameTime is zero or negative appends no sample, also
\* while scrolling is active, but it still counts in the per-second counter
\* and in frameCount, still closes the one-second window (with rule A) if the
\* window has elapsed, and still requests the next frame.
C21_NonPositiveFrame ==
    [][(FrameStep /\ lastTime' <= lastTime) =>
        LET closed == lastTime' - secondStart >= 1000
            counted == frameCountInSecond + 1
        IN /\ frameMetrics' = frameMetrics
           /\ frameCount' = frameCount + 1
           /\ frameCountInSecond' = IF closed THEN 0 ELSE counted
           /\ secondStart' = IF closed THEN lastTime' ELSE secondStart
           /\ droppedFrames' = IF closed /\ perfIsScrolling /\ counted < 30
                                 THEN droppedFrames + 1 ELSE droppedFrames
           /\ Cardinality(PerfRafs') = 1
           /\ rafId' # rafId
           /\ \A r \in PerfRafs' : r.id = rafId']_vars

C21_Witness ==
    /\ enabled /\ perfIsScrolling
    /\ console = {}
    /\ lastTime = now - 1
    /\ frameCount >= 1
    /\ frameCountInSecond = 1
    /\ frameMetrics = <<>>
    /\ Cardinality(PerfRafs) = 1

\* C22: generateReport() only reads: it leaves the sample buffer, the lifetime
\* counters, the scroll-active flag and the timers unchanged, and what it
\* returns is determined by them, so two calls with no event in between
\* return equal reports.  avgFps / minFps / maxFps and avgFrameTime /
\* maxFrameTime are the mean / min / max of the samples now in the buffer (all
\* 0 when it is empty); droppedFrames and totalFrames are the lifetime
\* counters, which the clearing of the buffer at the end of a gesture leaves
\* alone.
C22_ReportIsSnapshot ==
    /\ [][lastReport' # lastReport =>
            LET r == lastReport'.report
                n == Len(frameMetrics)
                fps(i) == frameMetrics[i].fps
                RECURSIVE TimeSum(_)
                TimeSum(i) == IF i = 0 THEN 0
                              ELSE frameMetrics[i].frameTime + TimeSum(i - 1)
            IN /\ UNCHANGED <<browserVars, scrollVars, perfVars>>
               /\ r = ReportOf(frameMetrics, droppedFrames, frameCount,
                               cardCount, columnCount, windowDPR)
               /\ r.droppedFrames = droppedFrames
               /\ r.totalFrames = frameCount
               /\ n = 0 => /\ r.avgFps = Zero /\ r.minFps = Zero /\ r.maxFps = Zero
                           /\ r.avgFrameTime = Zero /\ r.maxFrameTime = Zero
               /\ n > 0 =>
                    /\ \A i \in 1..n :
                          /\ r.minFps.num * fps(i).den <= fps(i).num * r.minFps.den
                          /\ r.maxFps.num * fps(i).den >= fps(i).num * r.maxFps.den
                          /\ r.maxFrameTime.num >=
                                frameMetrics[i].frameTime * r.maxFrameTime.den
                    /\ \E i \in 1..n :
                          r.minFps.num * fps(i).den = fps(i).num * r.minFps.den
                    /\ \E i \in 1..n :
                          r.maxFps.num * fps(i).den = fps(i).num * r.maxFps.den
                    /\ \E i \in 1..n :
                          r.maxFrameTime.num =
                             frameMetrics[i].frameTime * r.maxFrameTime.den
                    /\ r.avgFrameTime.num * n = r.avgFrameTime.den * TimeSum(n)
                    /\ ~FracLess(r.avgFps, r.minFps)
                    /\ ~FracLess(r.maxFps, r.avgFps)
                    /\ (n = 2 =>
                          r.avgFps.num * 2 * fps(1).den * fps(2).den =
                             r.avgFps.den * (fps(1).num * fps(2).den
                                             + fps(2).num * fps(1).den))]_vars
    /\ [][reports' # reports =>
            (frameMetrics' = <<>> /\ frameCount' = frameCount
             /\ droppedFrames' = droppedFrames)]_vars

C22_Witness ==
    /\ lastReport.calls = 2
    /\ Len(frameMetrics) = 2
    /\ frameMetrics[1].frameTime # frameMetrics[2].frameTime
    /\ lastReport.report.avgFrameTime = [num |-> 150, den |-> 1]
    /\ lastReport.report.minFps = [num |-> 5, den |-> 1]
    /\ lastReport.report.maxFps = [num |-> 10, den |-> 1]
    /\ lastReport.report.avgFps = [num |-> 15, den |-> 2]
    /\ lastReport.report.totalFrames = 2
    /\ lastReport.report.cardCount = 4

====
